---- MODULE Spec2Model ----
(***************************************************************************)
(* Forge data plane: the SQLite Query Index (tasks + dependencies), the    *)
(* JSONL Record Store (.forge/tasks.jsonl) and the operations the design   *)
(* in docs/data-plane-design.md gives for them.                            *)
(***************************************************************************)
EXTENDS Integers, Sequences, FiniteSets, TLC

\* ------------------------------------------------------------------ bounds

\* Last clock value an operation may stamp (timestamps are 1..MaxTime).
MaxTime == 4
\* Longest Record Store (number of lines) a git merge may produce.
MaxStore == 2

\* ------------------------------------------------------------ value domains

\* SQL NULL / JSON null for the text columns.
NULL == "NULL"
\* NULL for the closed_at timestamp column.
NoTime == 0

\* Task IDs a mint can return (prefix "fg", base36 suffix).
Ids == {"fg-a", "fg-b"}
\* Agent identity strings.
Agents == {"worker-1", "worker-2", "worker-3"}
\* The identities the command-line callers of a sequential run pass.
Callers == {"worker-1", "worker-2"}
\* CHECK(status IN ('open', 'in_progress', 'closed'))
TaskStatus == {"open", "in_progress", "closed"}
\* CHECK(dep_type IN ('blocks', 'related', 'discovered-from'))
DepType == {"blocks", "related", "discovered-from"}
\* Free-form close reasons.
CloseReason == {"done"}
\* "keep this column" marker of a partial update (option not given).
KEEP == "KEEP"
\* Default of the tasks.priority column / the --priority option.
DefaultPriority == 2

Times == 1..MaxTime

VARIABLES
    tasks,      \* Query Index, relation tasks: id -> row (DOMAIN tasks = stored ids)
    deps,       \* Query Index, relation dependencies: set of <<from_id, to_id, dep_type>>
    store,      \* Record Store: sequence of JSONL lines
    now,        \* wall clock read by new Date().toISOString()
    held,       \* history: id -> agent whose claim returned true and is not yet released/closed
    lock,       \* holder of the SQLite writer lock (BEGIN IMMEDIATE), or NULL
    pc,         \* agent -> position in its session
    pick,       \* agent -> task it took from ready()
    got,        \* agent -> what its last claim / verification returned
    readyOut,   \* rows returned by the last forge ready call
    treeOut,    \* rows returned by the last forge dep tree call
    cursor,     \* the running forge import: the line and statement it is about to execute
    waited      \* agent -> time it has spent waiting for the writer lock

vars == <<tasks, deps, store, now, held, lock, pc, pick, got, readyOut, treeOut, cursor, waited>>

\* ----------------------------------------------------------------- helpers

\* A row of the tasks table (columns the operations read or write).
Task(st, as, cr, pri, par, cat, uat, clat) ==
    [status |-> st, assignee |-> as, close_reason |-> cr, priority |-> pri,
     parent_id |-> par, created_at |-> cat, updated_at |-> uat, closed_at |-> clat]

\* INSERT / UPDATE of one row.
Put(t, id, row) == [x \in DOMAIN t \cup {id} |-> IF x = id THEN row ELSE t[x]]

\* parent_id TEXT REFERENCES tasks(id): the parent must be NULL or a stored id
\* after the statement (a row may reference itself).
ParentOk(t, id, par) == par = NULL \/ par \in DOMAIN t \cup {id}

\* ------------------------------------------------------------------- state

AgentIdle == [a \in Agents |-> "idle"]
NoPick == [a \in Agents |-> NULL]
NoHold == [i \in Ids |-> NULL]
\* No forge import is running.
NoImport == [line |-> 0, phase |-> "idle"]
NoWait == [a \in Agents |-> 0]

Init ==
    /\ tasks = << >>
    /\ deps = {}
    /\ store = << >>
    /\ now = 0
    /\ held = NoHold
    /\ lock = NULL
    /\ pc = AgentIdle
    /\ pick = NoPick
    /\ got = NoPick
    /\ readyOut = << >>
    /\ treeOut = {}
    /\ cursor = NoImport
    /\ waited = NoWait

\* forge task create: mints an id and inserts an open row.
CreateTask(t, id, pri, par, ts) ==
    IF id \in DOMAIN t \/ ~ParentOk(t, id, par)
    THEN t      \* PRIMARY KEY / FOREIGN KEY constraint: the INSERT fails
    ELSE Put(t, id, Task("open", NULL, NULL, pri, par, ts, ts, NoTime))

Create(id, par) ==
    /\ now < MaxTime
    /\ tasks' = CreateTask(tasks, id, DefaultPriority, par, now + 1)
    /\ now' = IF tasks' = tasks THEN now ELSE now + 1
    /\ UNCHANGED <<deps, store, held, lock, pc, pick, got, readyOut, treeOut, cursor, waited>>

\* forge task update <id> [--status s] [--assignee a|none] [--parent id|none]:
\* sets the columns whose option is given, in one transaction.
UpdateTask(t, id, st, as, par, ts) ==
    IF id \notin DOMAIN t
    THEN t      \* no such row
    ELSE LET row == t[id]
             newPar == IF par = KEEP THEN row.parent_id ELSE par
         IN  IF ~ParentOk(t, id, newPar)
             THEN t     \* FOREIGN KEY constraint: the UPDATE fails
             ELSE Put(t, id,
                      [row EXCEPT !.status = IF st = KEEP THEN @ ELSE st,
                                  !.assignee = IF as = KEEP THEN @ ELSE as,
                                  !.parent_id = newPar,
                                  !.updated_at = ts])

\* Ownership recorded by a successful claimTask ends with a release or a close.
Unhold(id) == [held EXCEPT ![id] = NULL]

Update(id, st, as, par) ==
    /\ now < MaxTime
    /\ id \in DOMAIN tasks
    /\ ParentOk(tasks, id, IF par = KEEP THEN tasks[id].parent_id ELSE par)
    /\ tasks' = UpdateTask(tasks, id, st, as, par, now + 1)
    /\ now' = now + 1
    /\ UNCHANGED <<deps, store, held, lock, pc, pick, got, readyOut, treeOut, cursor, waited>>

\* Mutant of ClaimMatches: the UPDATE without "AND status = 'open' AND assignee IS NULL".
ClaimMatchesAnyRow(t, id) == id \in DOMAIN t

\* result.changes === 1 of claimTask's UPDATE ... WHERE id = ? AND status = 'open'
\* AND assignee IS NULL.
ClaimMatches(t, id) ==
    /\ id \in DOMAIN t
    /\ t[id].status = "open"
    /\ t[id].assignee = NULL

\* claimTask: the row after the UPDATE.
ClaimTask(t, id, agentId, ts) ==
    IF ClaimMatches(t, id)
    THEN Put(t, id, [t[id] EXCEPT !.status = "in_progress",
                                  !.assignee = agentId,
                                  !.updated_at = ts])
    ELSE t

\* claimTask's return value: result.changes === 1.
ClaimResult(t, id) == IF ClaimMatches(t, id) THEN "true" ELSE "false"

Claim(id, agentId) ==
    /\ now < MaxTime
    /\ tasks' = ClaimTask(tasks, id, agentId, now + 1)
    /\ now' = IF ClaimMatches(tasks, id) THEN now + 1 ELSE now
    /\ held' = IF ClaimMatches(tasks, id) THEN [held EXCEPT ![id] = agentId] ELSE held
    /\ UNCHANGED <<deps, store, lock, pc, pick, got, readyOut, treeOut, cursor, waited>>

\* Mutant of ReleaseTask: the release without "--assignee none".
ReleaseKeepsAssignee(t, id, ts) == UpdateTask(t, id, "open", KEEP, KEEP, ts)

\* Release: forge task update <id> --status open --assignee none.
ReleaseTask(t, id, ts) == UpdateTask(t, id, "open", NULL, KEEP, ts)

Release(id) ==
    /\ now < MaxTime
    /\ id \in DOMAIN tasks
    /\ tasks' = ReleaseTask(tasks, id, now + 1)
    /\ now' = now + 1
    /\ held' = Unhold(id)
    /\ UNCHANGED <<deps, store, lock, pc, pick, got, readyOut, treeOut, cursor, waited>>

\* --reason "" : the option given with an empty text.
EmptyReason == ""

\* Mutant of CloseTask: the close without "sets closed_at to now".
CloseWithoutClosedAt(t, id, reason, ts) ==
    IF id \notin DOMAIN t \/ reason = NULL
    THEN t
    ELSE Put(t, id, [t[id] EXCEPT !.status = "closed",
                                  !.close_reason = reason,
                                  !.updated_at = ts])

\* forge task close <id> --reason r: update --status closed with the reason
\* enforced; sets closed_at to now.
CloseTask(t, id, reason, ts) ==
    IF id \notin DOMAIN t \/ reason = NULL
    THEN t
    ELSE Put(t, id, [t[id] EXCEPT !.status = "closed",
                                  !.close_reason = reason,
                                  !.closed_at = ts,
                                  !.updated_at = ts])

Close(id, reason) ==
    /\ now < MaxTime
    /\ id \in DOMAIN tasks
    /\ reason # NULL
    /\ tasks' = CloseTask(tasks, id, reason, now + 1)
    /\ now' = now + 1
    /\ held' = Unhold(id)
    /\ UNCHANGED <<deps, store, lock, pc, pick, got, readyOut, treeOut, cursor, waited>>

\* dependencies.from_id / to_id REFERENCES tasks(id), PRAGMA foreign_keys = ON.
EdgeOk(t, from, to) == from \in DOMAIN t /\ to \in DOMAIN t

\* Mutant of InsertDep: the table declared with PRIMARY KEY (from_id, to_id).
InsertDepPairKey(t, d, from, to, type) ==
    IF EdgeOk(t, from, to) /\ ~\E e \in d : e[1] = from /\ e[2] = to
    THEN d \cup {<<from, to, type>>}
    ELSE d

\* INSERT into dependencies under PRIMARY KEY (from_id, to_id, dep_type).
InsertDep(t, d, from, to, type) ==
    IF EdgeOk(t, from, to) THEN d \cup {<<from, to, type>>} ELSE d

\* forge dep add <from-id> <to-id> --type type
DepAdd(from, to, type) ==
    /\ deps' = InsertDep(tasks, deps, from, to, type)
    /\ UNCHANGED <<tasks, store, now, held, lock, pc, pick, got, readyOut, treeOut, cursor, waited>>

\* ------------------------------------------------------------ Record Store

\* One JSONL line: the task's full row plus its outbound dependencies[].
Line(id, row, dl) == [ok |-> TRUE, id |-> id, row |-> row, dependencies |-> dl]
\* A line that is not valid JSON.
Malformed == [ok |-> FALSE]

\* Task.dependencies of a task: the dependencies rows with from_id = id.
OutDeps(d, id) == {<<e[2], e[3]>> : e \in {x \in d : x[1] = id}}

\* The line forge export writes for one task.
Snapshot(t, d, id) == Line(id, t[id], OutDeps(d, id))

\* Orders in which SELECT * FROM tasks (no ORDER BY) may return the rows.
Orders(S) == {f \in [1..Cardinality(S) -> S] : \A i, j \in DOMAIN f : i # j => f[i] # f[j]}

\* forge export: rewrites tasks.jsonl from SQLite, one line per task.
ExportLines(t, d, order) == [i \in DOMAIN order |-> Snapshot(t, d, order[i])]

Export(order) ==
    /\ store' = ExportLines(tasks, deps, order)
    /\ UNCHANGED <<tasks, deps, now, held, lock, pc, pick, got, readyOut, treeOut, cursor, waited>>

\* Mutant of LineWins: every line replaces the stored row, whatever its updated_at.
LineAlwaysWins(t, line) == TRUE

\* Last-write-wins on updated_at: the line replaces the stored row unless the
\* stored row is later.
LineWins(t, line) ==
    line.id \notin DOMAIN t \/ line.row.updated_at >= t[line.id].updated_at

\* UPSERT of one line's row into tasks (FOREIGN KEY on parent_id enforced).
UpsertTask(t, line) ==
    IF LineWins(t, line) /\ ParentOk(t, line.id, line.row.parent_id)
    THEN Put(t, line.id, line.row)
    ELSE t

\* INSERT of a line's dependencies[] (PRIMARY KEY and FOREIGN KEYs enforced).
RECURSIVE InsertDeps(_, _, _, _)
InsertDeps(t, d, from, dl) ==
    IF dl = {} THEN d
    ELSE LET e == CHOOSE x \in dl : TRUE
         IN  InsertDeps(t, InsertDep(t, d, from, e[1], e[2]), from, dl \ {e})

\* One line of forge import: a malformed line is skipped with a warning, and so
\* is a row the database rejects.
ImportLine(idx, line) ==
    IF ~line.ok THEN idx
    ELSE IF LineWins(idx.tasks, line) /\ ~ParentOk(idx.tasks, line.id, line.row.parent_id)
    THEN idx
    ELSE LET t2 == UpsertTask(idx.tasks, line)
         IN  [tasks |-> t2, deps |-> InsertDeps(t2, idx.deps, line.id, line.dependencies)]

\* Mutant of ImportLines: the import that gives up at the first malformed line.
RECURSIVE ImportLinesFatal(_, _)
ImportLinesFatal(idx, lines) ==
    IF lines = << >> \/ ~Head(lines).ok THEN idx
    ELSE ImportLinesFatal(ImportLine(idx, Head(lines)), Tail(lines))

\* forge import: reads tasks.jsonl line by line, in file order.
RECURSIVE ImportLines(_, _)
ImportLines(idx, lines) ==
    IF lines = << >> THEN idx
    ELSE ImportLines(ImportLine(idx, Head(lines)), Tail(lines))

Index == [tasks |-> tasks, deps |-> deps]
EmptyIndex == [tasks |-> << >>, deps |-> {}]

Import ==
    /\ LET idx == ImportLines(Index, store)
       IN  tasks' = idx.tasks /\ deps' = idx.deps
    /\ UNCHANGED <<store, now, held, lock, pc, pick, got, readyOut, treeOut, cursor, waited>>

\* Recovery procedure: delete forge.db, then run forge import.
Rebuild ==
    /\ LET idx == ImportLines(EmptyIndex, store)
       IN  tasks' = idx.tasks /\ deps' = idx.deps
    /\ UNCHANGED <<store, now, held, lock, pc, pick, got, readyOut, treeOut, cursor, waited>>

\* ------------------------------------------------------------ forge ready

\* Mutant of BlockedIds: the subquery without "d.dep_type = 'blocks'".
BlockedIdsAnyType(t, d) ==
    {e[1] : e \in {x \in d : /\ x[2] \in DOMAIN t
                             /\ t[x[2]].status # "closed"}}

\* Mutant of BlockedIds: the subquery without "blocker.status != 'closed'".
BlockedIdsEvenClosed(t, d) ==
    {e[1] : e \in {x \in d : /\ x[2] \in DOMAIN t
                             /\ x[3] = "blocks"}}

\* The NOT IN subquery of forge ready: from_id of every blocks edge that joins
\* to a blocker row whose status is not closed.
BlockedIds(t, d) ==
    {e[1] : e \in {x \in d : /\ x[2] \in DOMAIN t
                             /\ x[3] = "blocks"
                             /\ t[x[2]].status # "closed"}}

\* forge ready: the rows selected (open, unclaimed, unblocked).
Ready(t, d) ==
    {id \in DOMAIN t : /\ t[id].status = "open"
                       /\ t[id].assignee = NULL
                       /\ id \notin BlockedIds(t, d)}

\* Mutant of OrderedBefore: the query written ORDER BY t.priority DESC.
OrderedBeforeDesc(t, x, y) ==
    \/ t[x].priority > t[y].priority
    \/ t[x].priority = t[y].priority /\ t[x].created_at <= t[y].created_at

\* ORDER BY t.priority ASC, t.created_at ASC
OrderedBefore(t, x, y) ==
    \/ t[x].priority < t[y].priority
    \/ t[x].priority = t[y].priority /\ t[x].created_at <= t[y].created_at

\* The result lists forge ready may return (rows that tie come in any order).
ReadyLists(t, d) ==
    {o \in Orders(Ready(t, d)) :
        \A i, j \in DOMAIN o : i < j => OrderedBefore(t, o[i], o[j])}

\* One forge ready --json call.
ReadyCall ==
    /\ \E o \in ReadyLists(tasks, deps) : readyOut' = o
    /\ UNCHANGED <<tasks, deps, store, now, held, lock, pc, pick, got, treeOut, cursor, waited>>

\* --------------------------------------------------------- forge dep tree

\* The depth at which the recursive step stops: "dt.depth < 10 -- cycle guard".
MaxDepth == 10

\* Mutant of DepthGuard: the guard written "dt.depth <= 10".
DepthGuardInclusive(depth) == depth <= MaxDepth

\* WHERE ... AND dt.depth < 10
DepthGuard(depth) == depth < MaxDepth

\* Anchor of dep_tree: SELECT ?, 0, ?
TreeAnchor(root) == [task_id |-> root, depth |-> 0, path |-> <<root>>]

\* Recursive step of dep_tree: the rows joined to the blocks edges that leave
\* them, one level deeper, the path extended by the target.
TreeStep(d, rows) ==
    {[task_id |-> p[2][2], depth |-> p[1].depth + 1, path |-> Append(p[1].path, p[2][2])] :
        p \in {q \in rows \X d : /\ q[2][1] = q[1].task_id
                                 /\ q[2][3] = "blocks"
                                 /\ DepthGuard(q[1].depth)}}

\* WITH RECURSIVE ... UNION ALL: the step is applied to the rows it produced
\* until it produces none.
RECURSIVE DepTreeRows(_, _)
DepTreeRows(d, frontier) ==
    IF frontier = {} THEN {} ELSE frontier \cup DepTreeRows(d, TreeStep(d, frontier))

\* The outer SELECT: dep_tree joined to tasks (ORDER BY only arranges the rows).
DepTree(t, d, root) ==
    {[depth |-> r.depth, path |-> r.path, id |-> r.task_id,
      status |-> t[r.task_id].status, priority |-> t[r.task_id].priority] :
        r \in {x \in DepTreeRows(d, {TreeAnchor(root)}) : x.task_id \in DOMAIN t}}

\* One forge dep tree <id> call.
DepTreeCall(root) ==
    /\ treeOut' = DepTree(tasks, deps, root)
    /\ UNCHANGED <<tasks, deps, store, now, held, lock, pc, pick, got, readyOut, cursor, waited>>

NextTree ==
    \/ \E id \in Ids : Create(id, NULL)
    \/ \E from \in Ids, to \in Ids, type \in {"blocks", "related"} : DepAdd(from, to, type)
    \/ \E root \in Ids : DepTreeCall(root)

\* Edges of any shape, self-loops and cycles included, walked by forge dep tree.
SpecTree == Init /\ [][NextTree]_vars

\* --------------------------------------------------------- agent sessions

\* An Index in which fg-a was created at time ta and fg-b at time tb, and
\* nothing else has happened.
Loaded(ta, tb) ==
    /\ tasks = [i \in Ids |-> Task("open", NULL, NULL, DefaultPriority, NULL,
                                   IF i = "fg-a" THEN ta ELSE tb,
                                   IF i = "fg-a" THEN ta ELSE tb, NoTime)]
    /\ deps = {}
    /\ store = << >>
    /\ now = IF ta > tb THEN ta ELSE tb
    /\ held = NoHold
    /\ lock = NULL
    /\ pc = AgentIdle
    /\ pick = NoPick
    /\ got = NoPick
    /\ readyOut = << >>
    /\ treeOut = {}
    /\ cursor = NoImport
    /\ waited = NoWait

\* Two forge task create calls, one after the other.
InitLoaded == Loaded(1, 2)
\* Two forge task create calls within the same millisecond.
InitBatch == Loaded(1, 1)

\* BEGIN IMMEDIATE of the atomic claim: takes SQLite's writer lock.
ClaimBegin(a, id) ==
    /\ pc[a] = "idle"
    /\ lock = NULL
    /\ lock' = a
    /\ pc' = [pc EXCEPT ![a] = "begun"]
    /\ pick' = [pick EXCEPT ![a] = id]
    /\ UNCHANGED <<tasks, deps, store, now, held, got, readyOut, treeOut, cursor, waited>>

\* The UPDATE of claimTask and its result.changes === 1.
ClaimUpdate(a) ==
    /\ pc[a] = "begun"
    /\ ClaimMatches(tasks, pick[a]) => now < MaxTime
    /\ tasks' = ClaimTask(tasks, pick[a], a, now + 1)
    /\ got' = [got EXCEPT ![a] = ClaimResult(tasks, pick[a])]
    /\ now' = IF ClaimMatches(tasks, pick[a]) THEN now + 1 ELSE now
    /\ held' = IF ClaimMatches(tasks, pick[a]) THEN [held EXCEPT ![pick[a]] = a] ELSE held
    /\ pc' = [pc EXCEPT ![a] = "updated"]
    /\ UNCHANGED <<deps, store, lock, pick, readyOut, treeOut, cursor, waited>>

\* COMMIT: releases the writer lock; claimTask returns.
ClaimCommit(a) ==
    /\ pc[a] = "updated"
    /\ lock' = NULL
    /\ pc' = [pc EXCEPT ![a] = "done"]
    /\ UNCHANGED <<tasks, deps, store, now, held, pick, got, readyOut, treeOut, cursor, waited>>

NextClaim ==
    \/ \E a \in Agents, id \in Ids : ClaimBegin(a, id)
    \/ \E a \in Agents : ClaimUpdate(a)
    \/ \E a \in Agents : ClaimCommit(a)

\* Agents racing to claim through claimTask.
SpecClaim == InitLoaded /\ [][NextClaim]_vars

\* agentLoop step 1: tasks = forge ready --json; task = tasks[0].
LoopReady(a) ==
    /\ pc[a] = "idle"
    /\ \E o \in ReadyLists(tasks, deps) :
          /\ o # << >>
          /\ pick' = [pick EXCEPT ![a] = o[1]]
    /\ pc' = [pc EXCEPT ![a] = "picked"]
    /\ UNCHANGED <<tasks, deps, store, now, held, lock, got, readyOut, treeOut, cursor, waited>>

\* agentLoop step 2: forge task update <id> --status in_progress --assignee <agent>.
LoopUpdate(a) ==
    /\ pc[a] = "picked"
    /\ now < MaxTime
    /\ tasks' = UpdateTask(tasks, pick[a], "in_progress", a, KEEP, now + 1)
    /\ now' = now + 1
    /\ pc' = [pc EXCEPT ![a] = "updated"]
    /\ UNCHANGED <<deps, store, held, lock, pick, got, readyOut, treeOut, cursor, waited>>

\* agentLoop step 3: forge task show <id>; continue unless claimed.assignee === agentId.
LoopVerify(a) ==
    /\ pc[a] = "updated"
    /\ pc' = [pc EXCEPT ![a] = IF tasks[pick[a]].assignee = a THEN "working" ELSE "idle"]
    /\ got' = [got EXCEPT ![a] = IF tasks[pick[a]].assignee = a THEN "true" ELSE "false"]
    /\ UNCHANGED <<tasks, deps, store, now, held, lock, pick, readyOut, treeOut, cursor, waited>>

\* agentLoop step 4, doWork succeeded: forge task close <id> --reason "Completed by ...".
LoopClose(a) ==
    /\ pc[a] = "working"
    /\ now < MaxTime
    /\ tasks' = CloseTask(tasks, pick[a], "done", now + 1)
    /\ now' = now + 1
    /\ pc' = [pc EXCEPT ![a] = "idle"]
    /\ UNCHANGED <<deps, store, held, lock, pick, got, readyOut, treeOut, cursor, waited>>

\* agentLoop step 5, doWork threw: forge task update <id> --status open --assignee none.
LoopRelease(a) ==
    /\ pc[a] = "working"
    /\ now < MaxTime
    /\ tasks' = ReleaseTask(tasks, pick[a], now + 1)
    /\ now' = now + 1
    /\ pc' = [pc EXCEPT ![a] = "released"]
    /\ UNCHANGED <<deps, store, held, lock, pick, got, readyOut, treeOut, cursor, waited>>

\* agentLoop step 5, second call: forge task update <id> --meta-set last_error=...
LoopMeta(a) ==
    /\ pc[a] = "released"
    /\ now < MaxTime
    /\ tasks' = UpdateTask(tasks, pick[a], KEEP, KEEP, KEEP, now + 1)
    /\ now' = now + 1
    /\ pc' = [pc EXCEPT ![a] = "idle"]
    /\ UNCHANGED <<deps, store, held, lock, pick, got, readyOut, treeOut, cursor, waited>>

NextLoop ==
    \/ \E a \in Agents : LoopReady(a)
    \/ \E a \in Agents : LoopUpdate(a)
    \/ \E a \in Agents : LoopVerify(a)
    \/ \E a \in Agents : LoopClose(a)
    \/ \E a \in Agents : LoopRelease(a)
    \/ \E a \in Agents : LoopMeta(a)

\* Agents running the documented lifecycle loop.
SpecLoop == InitBatch /\ [][NextLoop]_vars

\* ------------------------------------------------------------- ownership

\* The snapshot of a task as another branch holds it after releasing it at time u.
ReleasedElsewhere(id, u) ==
    Line(id, Task("open", NULL, NULL, DefaultPriority, NULL,
                  IF id = "fg-a" THEN 1 ELSE 2, u, NoTime), {})

\* Lines a merge brings in during an ownership run.
OwnMergeLines == {ReleasedElsewhere(id, MaxTime) : id \in Ids}

\* git pull / git merge: a line written on another branch enters tasks.jsonl.
GitMerge(line, pos) ==
    /\ Len(store) < MaxStore
    /\ pos \in 0..Len(store)
    /\ store' = SubSeq(store, 1, pos) \o <<line>> \o SubSeq(store, pos + 1, Len(store))
    /\ UNCHANGED <<tasks, deps, now, held, lock, pc, pick, got, readyOut, treeOut, cursor, waited>>

\* forge task update options that touch status or assignee, one at a time.
OwnArgs ==
    {<<st, KEEP, KEEP>> : st \in TaskStatus} \cup {<<KEEP, as, KEEP>> : as \in Callers \cup {NULL}}

\* The rowid order, in which SQLite returns the rows of an unordered SELECT.
RowOrder(S) == CHOOSE o \in Orders(S) : \A i, j \in DOMAIN o : i < j => o[i] = "fg-a" \/ o[j] = "fg-b"

NextOwn ==
    \/ \E id \in Ids, a \in Callers : Claim(id, a)
    \/ \E id \in Ids, u \in OwnArgs : Update(id, u[1], u[2], u[3])
    \/ \E id \in Ids : Release(id)
    \/ \E id \in Ids, r \in CloseReason : Close(id, r)
    \/ \E from \in Ids : \E to \in Ids \ {from} : DepAdd(from, to, "blocks")
    \/ Export(RowOrder(DOMAIN tasks))
    \/ Import
    \/ \E line \in OwnMergeLines : GitMerge(line, Len(store))

\* Callers claiming, updating, releasing and closing two tasks while exports,
\* merges and imports go on.
SpecOwn == InitLoaded /\ [][NextOwn]_vars

\* ------------------------------------------------------- export and import

\* forge task update options that touch status or parent, one at a time.
SyncArgs ==
    {<<st, KEEP, KEEP>> : st \in TaskStatus} \cup {<<KEEP, KEEP, par>> : par \in Ids \cup {NULL}}

NextSync ==
    \/ \E id \in Ids, par \in Ids \cup {NULL} : Create(id, par)
    \/ \E id \in Ids, u \in SyncArgs : Update(id, u[1], u[2], u[3])
    \/ \E id \in Ids, a \in Callers : Claim(id, a)
    \/ \E id \in Ids : Release(id)
    \/ \E id \in Ids, r \in CloseReason : Close(id, r)
    \/ \E from \in Ids : \E to \in Ids \ {from} : DepAdd(from, to, "blocks")
    \/ \E order \in Orders(DOMAIN tasks) : Export(order)
    \/ Import
    \/ Rebuild

\* One clone: command-line calls on the Index, exports at commits, imports and
\* rebuilds of the Index from tasks.jsonl.
SpecSync == Init /\ [][NextSync]_vars

\* --------------------------------------------------- import of merged stores

\* Latest updated_at a snapshot line of a merged store carries.
MaxStamp == 2
\* Longest merged store that is imported.
MaxLines == 3

SnapshotTimes == 1..MaxStamp

\* Rows of id that clones of the repository export: open or closed, fg-a with or
\* without fg-b as parent epic.
SnapshotRows(id) ==
    {Task("open", NULL, NULL, DefaultPriority, par, 1, u, NoTime) :
        par \in (IF id = "fg-a" THEN {NULL, "fg-b"} ELSE {NULL}), u \in SnapshotTimes}
    \cup {Task("closed", NULL, "done", DefaultPriority, par, 1, u, u) :
        par \in (IF id = "fg-a" THEN {NULL, "fg-b"} ELSE {NULL}), u \in SnapshotTimes}

SnapshotLines ==
    UNION {{Line(id, row, {}) : row \in SnapshotRows(id)} : id \in Ids} \cup {Malformed}

\* Every export holds the parent of each task it holds (the Index enforces the
\* foreign key), and a line-level merge keeps every line of both sides.
RefClosed(lines) ==
    \A i \in DOMAIN lines :
        (lines[i].ok /\ lines[i].row.parent_id # NULL) =>
            \E j \in DOMAIN lines : lines[j].ok /\ lines[j].id = lines[i].row.parent_id

\* The merged tasks.jsonl files of up to MaxLines lines.
MergedStores ==
    {l \in UNION {[1..n -> SnapshotLines] : n \in 0..MaxLines} : RefClosed(l)}

\* The Index before the import: empty, or holding fg-a as last written locally.
StartTasks ==
    {<< >>} \cup {[i \in {"fg-a"} |-> Task("open", NULL, NULL, DefaultPriority, NULL, 1, u, NoTime)] :
                    u \in SnapshotTimes}

InitImport ==
    /\ tasks \in StartTasks
    /\ deps = {}
    /\ store \in MergedStores
    /\ now = MaxStamp
    /\ held = NoHold
    /\ lock = NULL
    /\ pc = AgentIdle
    /\ pick = NoPick
    /\ got = NoPick
    /\ readyOut = << >>
    /\ treeOut = {}
    /\ cursor = NoImport
    /\ waited = NoWait

NextImport ==
    \/ Import
    \/ Rebuild

\* The post-merge hook: forge import of a merged tasks.jsonl.
SpecImport == InitImport /\ [][NextImport]_vars

\* ---------------------------------------------------- hooks on a merged store

NextHooks ==
    \/ Export(RowOrder(DOMAIN tasks))
    \/ Import

\* The pre-commit export and the post-merge import, run in any order on a
\* merged tasks.jsonl.
SpecHooks == InitImport /\ [][NextHooks]_vars

\* ------------------------------------------------------------- ready queue

NextReady ==
    \/ \E id \in Ids : Claim(id, "worker-1")
    \/ \E id \in Ids : Release(id)
    \/ \E id \in Ids, r \in CloseReason : Close(id, r)
    \/ \E from \in Ids : \E to \in Ids \ {from} : \E type \in DepType : DepAdd(from, to, type)
    \/ ReadyCall

\* Work on two tasks with typed edges between them, polled with forge ready.
SpecReady == InitLoaded /\ [][NextReady]_vars

\* ---------------------------------------------------------- task lifecycle

NextLife ==
    \/ \E id \in Ids : Create(id, NULL)
    \/ \E id \in Ids, st \in TaskStatus : Update(id, st, KEEP, KEEP)
    \/ \E id \in Ids, a \in Callers : Claim(id, a)
    \/ \E id \in Ids : Release(id)
    \/ \E id \in Ids, r \in CloseReason : Close(id, r)

\* The status-changing commands applied to the tasks of one Index.
SpecLife == Init /\ [][NextLife]_vars

\* ------------------------------------------------------------ ready order

\* --priority 0-4: the priorities given to new tasks in an ordering run.
Priorities == {0, 1, DefaultPriority}

\* forge task create "<title>" --priority pri
CreateWithPriority(id, pri) ==
    /\ now < MaxTime
    /\ tasks' = CreateTask(tasks, id, pri, NULL, now + 1)
    /\ now' = IF tasks' = tasks THEN now ELSE now + 1
    /\ UNCHANGED <<deps, store, held, lock, pc, pick, got, readyOut, treeOut, cursor, waited>>

NextOrder ==
    \/ \E id \in Ids, pri \in Priorities : CreateWithPriority(id, pri)
    \/ \E id \in Ids, r \in CloseReason : Close(id, r)
    \/ \E id \in Ids : Release(id)
    \/ ReadyCall

\* Tasks of different priorities, polled with forge ready.
SpecOrder == Init /\ [][NextOrder]_vars

\* ------------------------------------------------- import, statement by statement

\* forge import skips the line: it is malformed or the database rejects its row.
Skipped(t, line) ==
    ~line.ok \/ (LineWins(t, line) /\ ~ParentOk(t, line.id, line.row.parent_id))

\* The importer moves on to the line after line k, or ends.
NextLine(k) == IF k < Len(store) THEN [line |-> k + 1, phase |-> "row"] ELSE NoImport

\* forge import starts reading tasks.jsonl.
ImportBegin ==
    /\ cursor = NoImport
    /\ store # << >>
    /\ cursor' = [line |-> 1, phase |-> "row"]
    /\ UNCHANGED <<tasks, deps, store, now, held, lock, pc, pick, got, readyOut, treeOut, waited>>

\* "for each task: UPSERT into SQLite": the statement for the row of one line,
\* committed by itself.
ImportUpsert ==
    /\ cursor.phase = "row"
    /\ LET line == store[cursor.line]
       IN  IF Skipped(tasks, line)
           THEN /\ tasks' = tasks
                /\ cursor' = NextLine(cursor.line)
           ELSE /\ tasks' = UpsertTask(tasks, line)
                /\ cursor' = [cursor EXCEPT !.phase = "edges"]
    /\ UNCHANGED <<deps, store, now, held, lock, pc, pick, got, readyOut, treeOut, waited>>

\* The inserts into dependencies for the dependencies[] of the line just upserted.
ImportEdges ==
    /\ cursor.phase = "edges"
    /\ LET line == store[cursor.line]
       IN  deps' = InsertDeps(tasks, deps, line.id, line.dependencies)
    /\ cursor' = NextLine(cursor.line)
    /\ UNCHANGED <<tasks, store, now, held, lock, pc, pick, got, readyOut, treeOut, waited>>

\* A fresh clone after git pull: the Index is empty and tasks.jsonl holds fg-a
\* and fg-b, fg-b blocked by fg-a, in the order they were created.
InitPulled ==
    /\ tasks = << >>
    /\ deps = {}
    /\ store = <<Line("fg-a", Task("open", NULL, NULL, DefaultPriority, NULL, 1, 1, NoTime), {}),
                 Line("fg-b", Task("open", NULL, NULL, DefaultPriority, NULL, 2, 2, NoTime),
                      {<<"fg-a", "blocks">>})>>
    /\ now = 2
    /\ held = NoHold
    /\ lock = NULL
    /\ pc = AgentIdle
    /\ pick = NoPick
    /\ got = NoPick
    /\ readyOut = << >>
    /\ treeOut = {}
    /\ cursor = NoImport
    /\ waited = NoWait

NextRead ==
    \/ ImportBegin
    \/ ImportUpsert
    \/ ImportEdges
    \/ ReadyCall
    \/ \E id \in Ids : Claim(id, "worker-1")
    \/ \E id \in Ids, r \in CloseReason : Close(id, r)

\* Readers and writers running while the post-merge hook imports.
SpecRead == InitPulled /\ [][NextRead]_vars

\* ------------------------------------------------------------ writer lock

\* Polls of the busy handler that fit in busy_timeout = 5000 ms.
BusyTicks == 2

\* A process outside the agents (an import, a sqlite3 shell) that writes.
OtherWriter == "other-writer"

\* Mutant of TimedOut: a connection opened without busy_timeout.
NeverTimedOut(w) == FALSE

\* The busy handler gives up: busy_timeout has elapsed.
TimedOut(w) == w >= BusyTicks

\* An agent calls claimTask: BEGIN IMMEDIATE asks for the writer lock.
LockRequest(a, id) ==
    /\ pc[a] = "idle"
    /\ pc' = [pc EXCEPT ![a] = "waiting"]
    /\ pick' = [pick EXCEPT ![a] = id]
    /\ waited' = [waited EXCEPT ![a] = 0]
    /\ UNCHANGED <<tasks, deps, store, now, held, lock, got, readyOut, treeOut, cursor>>

\* The lock is free: BEGIN IMMEDIATE returns.
LockAcquire(a) ==
    /\ pc[a] = "waiting"
    /\ lock = NULL
    /\ lock' = a
    /\ pc' = [pc EXCEPT ![a] = "begun"]
    /\ UNCHANGED <<tasks, deps, store, now, held, pick, got, readyOut, treeOut, cursor, waited>>

\* The lock is held: the busy handler sleeps and polls again.
LockTick(a) ==
    /\ pc[a] = "waiting"
    /\ lock # NULL
    /\ waited[a] < BusyTicks
    /\ waited' = [waited EXCEPT ![a] = @ + 1]
    /\ UNCHANGED <<tasks, deps, store, now, held, lock, pc, pick, got, readyOut, treeOut, cursor>>

\* The lock is still held after busy_timeout: SQLITE_BUSY is thrown to the caller.
LockTimeout(a) ==
    /\ pc[a] = "waiting"
    /\ lock # NULL
    /\ TimedOut(waited[a])
    /\ pc' = [pc EXCEPT ![a] = "done"]
    /\ got' = [got EXCEPT ![a] = "busy"]
    /\ UNCHANGED <<tasks, deps, store, now, held, lock, pick, readyOut, treeOut, cursor, waited>>

\* Another process takes the writer lock, for as long as it likes.
OtherHold ==
    /\ lock = NULL
    /\ lock' = OtherWriter
    /\ UNCHANGED <<tasks, deps, store, now, held, pc, pick, got, readyOut, treeOut, cursor, waited>>

OtherRelease ==
    /\ lock = OtherWriter
    /\ lock' = NULL
    /\ UNCHANGED <<tasks, deps, store, now, held, pc, pick, got, readyOut, treeOut, cursor, waited>>

NextLock ==
    \/ \E a \in Callers, id \in Ids : LockRequest(a, id)
    \/ \E a \in Callers : LockAcquire(a)
    \/ \E a \in Callers : LockTick(a)
    \/ \E a \in Callers : LockTimeout(a)
    \/ \E a \in Callers : ClaimUpdate(a)
    \/ \E a \in Callers : ClaimCommit(a)
    \/ OtherHold
    \/ OtherRelease

\* Agents claiming while other processes take and release the writer lock.
SpecLock == InitLoaded /\ [][NextLock]_vars

\* A running process keeps executing: its busy handler polls until it gets the
\* lock or gives up, and a transaction that began is carried to its COMMIT.
\* Nothing makes another process release the lock.
LockFairness ==
    \A a \in Callers :
        /\ WF_vars(LockAcquire(a) \/ LockTick(a) \/ LockTimeout(a))
        /\ WF_vars(ClaimUpdate(a))
        /\ WF_vars(ClaimCommit(a))

SpecLockFair == SpecLock /\ LockFairness

\* ------------------------------------------------------- claim coordinator

NextCore ==
    \/ \E id \in Ids : Create(id, NULL)
    \/ \E id \in Ids, a \in Callers : Claim(id, a)
    \/ \E id \in Ids : Release(id)
    \/ \E id \in Ids, r \in CloseReason : Close(id, r)
    \/ Export(RowOrder(DOMAIN tasks))
    \/ Import

\* Tasks that are created, claimed, released and closed, never edited with
\* forge task update, and synchronised through the Index's own exports.
SpecCore == Init /\ [][NextCore]_vars

\* ------------------------------------------------------------------ claims

\* Agents whose claimTask call on id has returned.
Returned(id) == {a \in Agents : pick[a] = id /\ pc[a] \in {"updated", "done"}}
Winners(id) == {a \in Returned(id) : got[a] = "true"}

\* C1: when claim calls from different agents race on an open, unassigned task,
\* exactly one of the calls that have returned got true, every other got false,
\* and the task is in_progress with the winner as assignee.
C1_ClaimExactlyOneWinner ==
    \A id \in Ids :
        Returned(id) # {} =>
            /\ Cardinality(Winners(id)) = 1
            /\ \A a \in Returned(id) \ Winners(id) : got[a] = "false"
            /\ tasks[id].status = "in_progress"
            /\ tasks[id].assignee \in Winners(id)

\* C1 witness: three agents raced on fg-a, one call returned true, two false.
C1_Witness ==
    /\ Returned("fg-a") = Agents
    /\ Cardinality(Winners("fg-a")) = 1
    /\ \A a \in Agents : pc[a] = "done"

\* Agents that passed the "verify we got it" check on id and are doing the work.
Working(id) == {a \in Agents : pc[a] = "working" /\ pick[a] = id}

\* C2: in the documented agent loop at most one agent passes the verification
\* of a task and proceeds to work on it.
C2_AtMostOneVerified == \A id \in Ids : Cardinality(Working(id)) <= 1

\* The task is still owned the way the successful claim left it.
StillOwned(t, id) ==
    /\ held[id] # NULL
    /\ t[id].assignee = held[id]
    /\ t[id].status = "in_progress"

\* C3 as stated: after claim(id, a) returned true, and until a release(id) or a
\* close(id), the task's assignee is a and its status in_progress.
C3_OwnedUntilReleaseOrClose ==
    \A id \in Ids : held[id] # NULL => StillOwned(tasks, id)

\* The Record Store holds a snapshot of id that last-write-wins lets replace the row.
StoreOverrides(id) ==
    \E i \in DOMAIN store :
        /\ store[i].ok
        /\ store[i].id = id
        /\ store[i].row.updated_at >= tasks[id].updated_at

\* A step that may end the ownership of id: release, close, an update of id that
\* sets status or assignee, or an import of a snapshot of id that is not older.
EndsOwnership(id) ==
    \/ Release(id)
    \/ \E r \in CloseReason : Close(id, r)
    \/ \E u \in OwnArgs : Update(id, u[1], u[2], u[3])
    \/ Import /\ StoreOverrides(id)

\* C3 amended: after claim(id, a) returned true, assignee and status stay a and
\* in_progress across every step that is not a release, a close, an update of
\* id setting status or assignee, or an import of a snapshot of id that is not
\* older than the row.
C3_OwnedUntilOverwritten ==
    [][\A id \in Ids :
          (StillOwned(tasks, id) /\ ~EndsOwnership(id)) =>
              (tasks'[id].assignee = held[id] /\ tasks'[id].status = "in_progress")]_vars

\* C3 witness: fg-a is still owned by its claimer after a later claim attempt,
\* a dep.add, an export, a merge and an import of an older snapshot.
C3_Witness ==
    /\ StillOwned(tasks, "fg-a")
    /\ tasks["fg-a"].updated_at < now
    /\ deps # {}
    /\ Len(store) = MaxStore
    /\ \E i \in DOMAIN store :
          /\ store[i].ok
          /\ store[i].id = "fg-a"
          /\ store[i].row.updated_at < tasks["fg-a"].updated_at

\* C5: in every reachable state, discarding the Query Index and running import
\* on the Record Store yields an Index with the same tasks and field values.
C5_RebuildReproducesIndex == [][Rebuild => tasks' = tasks]_vars

\* The Record Store is what forge export has just written from this Index.
FreshExport == \E o \in Orders(DOMAIN tasks) : store = ExportLines(tasks, deps, o)

\* C6: export followed by import into a freshly emptied Index reproduces the
\* same task ids with the same field values, whatever the order of the lines.
C6_ExportImportRoundTrip == [][(FreshExport /\ Rebuild) => tasks' = tasks]_vars

\* The snapshot lines of id in the Record Store.
LinesOf(id) == {i \in DOMAIN store : store[i].ok /\ store[i].id = id}

\* C4: when the Record Store holds two snapshot lines of a task with updated_at
\* t1 < t2, in either order, import leaves the Index holding exactly the t2
\* snapshot, unless the Index already held a later record.
C4_LaterSnapshotWins ==
    [][Import =>
        \A id \in Ids : \A i, j \in LinesOf(id) :
            (/\ LinesOf(id) = {i, j}
             /\ store[i].row.updated_at < store[j].row.updated_at
             /\ (id \in DOMAIN tasks => tasks[id].updated_at <= store[j].row.updated_at))
            => (id \in DOMAIN tasks' /\ tasks'[id] = store[j].row)]_vars

\* The Record Store line i is the snapshot the Index row of its task was
\* imported from or exported to.
Current(i) ==
    /\ store[i].ok
    /\ store[i].id \in DOMAIN tasks
    /\ tasks[store[i].id] = store[i].row

\* The target of a blocks reference is in the Index with status closed.
Resolved(to) == to \in DOMAIN tasks /\ tasks[to].status = "closed"

\* C8: a task whose snapshot carries a blocks reference is absent from ready()
\* while the target is not in the Index with status closed, in particular while
\* the Index has no such target row.
C8_UnresolvedStillBlocks ==
    \A i \in DOMAIN store :
        (Current(i) /\ \E e \in store[i].dependencies : e[2] = "blocks" /\ ~Resolved(e[1]))
            => store[i].id \notin Ready(tasks, deps)

\* The tasks the text of the ready set describes.
ReadySet ==
    {id \in DOMAIN tasks :
        /\ tasks[id].status = "open"
        /\ tasks[id].assignee = NULL
        /\ ~\E e \in deps : /\ e[1] = id
                            /\ e[3] = "blocks"
                            /\ e[2] \in DOMAIN tasks
                            /\ tasks[e[2]].status # "closed"}

Listed(l) == {l[i] : i \in DOMAIN l}

\* C7: ready() returns exactly (each once) the tasks that are open, have no
\* assignee and have no outbound blocks edge to a task that is not closed; edges
\* of type related or discovered-from never exclude a task.
C7_ReadyReturnsExactlyReadySet ==
    [][ReadyCall => (Listed(readyOut') = ReadySet /\ Len(readyOut') = Cardinality(ReadySet))]_vars

\* fg-a is returned although it has a related and a discovered-from edge to the
\* open fg-b, and fg-b is left out because its blocks edge points to open fg-a.
C7_Witness ==
    /\ readyOut = <<"fg-a">>
    /\ {<<"fg-a", "fg-b", "related">>, <<"fg-a", "fg-b", "discovered-from">>,
        <<"fg-b", "fg-a", "blocks">>} \subseteq deps
    /\ \A id \in Ids : tasks[id].status = "open" /\ tasks[id].assignee = NULL

\* B is open and unassigned and has a blocks edge to the non-closed task A.
BlockedOn(B, A) ==
    /\ {A, B} \subseteq DOMAIN tasks
    /\ tasks[B].status = "open"
    /\ tasks[B].assignee = NULL
    /\ <<B, A, "blocks">> \in deps
    /\ tasks[A].status # "closed"

\* C9: an open, unassigned task B with a blocks edge to a non-closed task A is
\* in no ready() result; once close(A, reason) has run and B has no other
\* blocks edge to a non-closed task, every result the next ready() call can
\* return contains B.
C9_BlockedUntilBlockerClosed ==
    [][\A A \in Ids : \A B \in Ids \ {A} :
        /\ (ReadyCall /\ BlockedOn(B, A)) => B \notin Listed(readyOut')
        /\ ((\E r \in CloseReason : Close(A, r)) /\ BlockedOn(B, A))
            => \A l \in ReadyLists(tasks', deps') : B \in Listed(l)]_vars

\* fg-b, blocked on fg-a, is returned by the ready() call that follows the close
\* of fg-a.
C9_Witness ==
    /\ <<"fg-b", "fg-a", "blocks">> \in deps
    /\ tasks["fg-a"].status = "closed"
    /\ tasks["fg-a"].closed_at = now
    /\ tasks["fg-b"].status = "open"
    /\ readyOut = <<"fg-b">>

StatusStep(id) == <<tasks[id].status, tasks'[id].status>>

\* C10 (as stated): the only status changes are open to in_progress,
\* in_progress to open, in_progress to closed and open to closed, so the status
\* of a closed task never changes under claim, release, close and update.
C10_ClosedIsTerminal ==
    [][\A id \in DOMAIN tasks :
        tasks'[id].status # tasks[id].status =>
            StatusStep(id) \in {<<"open", "in_progress">>, <<"in_progress", "open">>,
                                <<"in_progress", "closed">>, <<"open", "closed">>}]_vars

\* C10 (amended): claim changes a status only from open to in_progress, close
\* leaves the task closed, and no claim or close call changes the status of a
\* closed task; release leaves the task open and update --status leaves it with
\* the status given, whatever the status was before, closed included.
C10_ClaimCloseTransitions ==
    [][\A id \in DOMAIN tasks :
        /\ (\E a \in Callers : Claim(id, a))
            => (tasks'[id].status = tasks[id].status \/ StatusStep(id) = <<"open", "in_progress">>)
        /\ (\E r \in CloseReason : Close(id, r)) => tasks'[id].status = "closed"
        /\ (/\ tasks[id].status = "closed"
            /\ \E j \in Ids : \/ \E a \in Callers : Claim(j, a)
                              \/ \E r \in CloseReason : Close(j, r))
            => tasks'[id].status = "closed"
        /\ Release(id) => tasks'[id].status = "open"
        /\ \A st \in TaskStatus : Update(id, st, KEEP, KEEP) => tasks'[id].status = st]_vars

\* A task that was closed and is open again.
C10_Witness ==
    \E id \in DOMAIN tasks : tasks[id].status = "open" /\ tasks[id].closed_at # NoTime

\* C11 (as stated): a task has an assignee only if its status is in_progress.
C11_AssigneeOnlyInProgress ==
    \A id \in DOMAIN tasks : tasks[id].assignee # NULL => tasks[id].status = "in_progress"

\* C11 (amended): after any sequence of create, claim, release, close, export
\* and import, an open task has no assignee and every in_progress task has
\* one; a closed task keeps the assignee it had when it was closed.
C11_OpenHasNoAssignee ==
    \A id \in DOMAIN tasks :
        /\ tasks[id].status = "open" => tasks[id].assignee = NULL
        /\ tasks[id].status = "in_progress" => tasks[id].assignee \in Callers

\* A claimed task that was closed and still names its assignee, next to an open
\* task without one.
C11_Witness ==
    \E id \in DOMAIN tasks : \E j \in DOMAIN tasks :
        /\ tasks[id].status = "closed" /\ tasks[id].assignee \in Callers
        /\ tasks[j].status = "open" /\ tasks[j].assignee = NULL

C13_MintRetriesOnCollision ==
    \A id \in Ids :
        Ids \ DOMAIN tasks # {} =>
            LET t2 == CreateTask(tasks, id, DefaultPriority, NULL, now + 1)
            IN  /\ Cardinality(DOMAIN t2) = Cardinality(DOMAIN tasks) + 1
                /\ \A x \in DOMAIN tasks : t2[x] = tasks[x]

\* C14: for every edge set, cyclic ones included, and every root, dep.tree
\* returns a finite set of rows, each with a depth of at most the maximum depth
\* (10) that is the number of edges on its path.
C14_DepTreeWithinDepthBound ==
    /\ IsFiniteSet(treeOut)
    /\ \A r \in treeOut : r.depth \in 0..MaxDepth /\ Len(r.path) = r.depth + 1

\* The blocks edges form the cycle fg-a, fg-b, fg-a and the traversal from fg-a
\* went round it until the depth bound.
C14_Witness ==
    /\ {<<"fg-a", "fg-b", "blocks">>, <<"fg-b", "fg-a", "blocks">>} \subseteq deps
    /\ \E r \in treeOut : r.depth = MaxDepth /\ r.path[1] = "fg-a"

StoreIds(s) == {s[i].id : i \in {j \in DOMAIN s : s[j].ok}}

\* Line i of s carries the greatest updated_at among the lines of its task.
Latest(s, i) ==
    /\ s[i].ok
    /\ \A j \in DOMAIN s :
          (s[j].ok /\ s[j].id = s[i].id) => s[j].row.updated_at <= s[i].row.updated_at

IsOk(line) == line.ok

\* C17: a malformed line never aborts import: it is skipped and the
\* well-formed lines before and after it are still upserted, so the import
\* gives the Index that the store without its malformed lines gives.
C17_MalformedLinesSkipped ==
    ImportLines(Index, store) = ImportLines(Index, SelectSeq(store, IsOk))

\* The store has a malformed line between the lines of two tasks and the Index
\* holds both tasks as those lines describe them.
C17_Witness ==
    /\ Len(store) = 3
    /\ store[1].ok /\ ~store[2].ok /\ store[3].ok
    /\ store[1].id # store[3].id
    /\ {store[1].id, store[3].id} \subseteq DOMAIN tasks
    /\ tasks[store[1].id] = store[1].row
    /\ tasks[store[3].id] = store[3].row

\* C18: edge insertion is idempotent: inserting a triple between stored tasks
\* leaves exactly that triple added to the dependencies relation and the other
\* rows as they were, inserting the same triple again changes nothing, and so
\* does inserting again the edges a task's exported line lists.
C18_EdgeInsertionIdempotent ==
    /\ \A from \in Ids, to \in Ids, type \in DepType :
          LET d1 == InsertDep(tasks, deps, from, to, type)
          IN  /\ EdgeOk(tasks, from, to) => d1 = deps \cup {<<from, to, type>>}
              /\ Cardinality({e \in d1 : e = <<from, to, type>>}) <= 1
              /\ InsertDep(tasks, d1, from, to, type) = d1
    /\ \A id \in DOMAIN tasks : InsertDeps(tasks, deps, id, OutDeps(deps, id)) = deps

\* Two edges of different types were added between the same pair of tasks.
C18_Witness ==
    {<<"fg-a", "fg-b", "blocks">>, <<"fg-a", "fg-b", "related">>} \subseteq deps

\* C19: dep.add stores an edge whose to_id is not in the Index at insertion
\* time: the insertion succeeds and the edge is in the dependencies relation
\* afterwards.
C19_EdgeToAbsentTaskStored ==
    \A from \in DOMAIN tasks, to \in Ids \ DOMAIN tasks, type \in DepType :
        <<from, to, type>> \in InsertDep(tasks, deps, from, to, type)

\* C20: the updated_at of a task never decreases from one state to the next,
\* and a step that changes a row through update, claim, release or close leaves
\* its updated_at greater than before, also when the stored value was imported
\* from a snapshot another process wrote.
C20_UpdatedAtMonotone ==
    [][\A id \in DOMAIN tasks :
        /\ id \in DOMAIN tasks'
        /\ tasks'[id].updated_at >= tasks[id].updated_at
        /\ (tasks'[id] # tasks[id] /\ ~Import) => tasks'[id].updated_at > tasks[id].updated_at]_vars

\* C21: a close with the reason omitted or empty fails and leaves the task as
\* it was (status, close_reason, closed_at, updated_at); a successful close
\* sets status closed, close_reason to the reason and closed_at equal to
\* updated_at.
C21_CloseRequiresReason ==
    \A id \in DOMAIN tasks :
        /\ \A reason \in {NULL, EmptyReason} : CloseTask(tasks, id, reason, now + 1) = tasks
        /\ \A reason \in CloseReason :
              LET row == CloseTask(tasks, id, reason, now + 1)[id]
              IN  /\ row.status = "closed"
                  /\ row.close_reason = reason
                  /\ row.closed_at = row.updated_at

\* C22: an update, claim, release or close that names an id absent from the
\* Index leaves the Index unchanged and is reported to the caller as a
\* not-found failure, which for claim is distinct from the false of a lost race.
C22_AbsentIdIsNotFound ==
    \A id \in Ids \ DOMAIN tasks :
        /\ \A a \in Callers : ClaimTask(tasks, id, a, now + 1) = tasks
        /\ \A st \in TaskStatus : UpdateTask(tasks, id, st, KEEP, KEEP, now + 1) = tasks
        /\ ReleaseTask(tasks, id, now + 1) = tasks
        /\ \A r \in CloseReason : CloseTask(tasks, id, r, now + 1) = tasks
        /\ ClaimResult(tasks, id) \notin {"true", "false"}

\* C23: release succeeds on every task in the Index, whoever holds it, and
\* leaves it open with no assignee and the other tasks as they were; a second
\* release right after leaves status and assignee as the first left them.
C23_ReleaseIdempotent ==
    \A id \in DOMAIN tasks :
        LET t1 == ReleaseTask(tasks, id, now + 1)
            t2 == ReleaseTask(t1, id, now + 2)
        IN  /\ t1[id].status = "open" /\ t1[id].assignee = NULL
            /\ t1[id].updated_at = now + 1
            /\ \A x \in DOMAIN tasks \ {id} : t1[x] = tasks[x]
            /\ t2[id].status = t1[id].status /\ t2[id].assignee = t1[id].assignee

\* A task that was claimed and then released, never closed.
C23_Witness ==
    \E id \in DOMAIN tasks :
        /\ tasks[id].status = "open" /\ tasks[id].assignee = NULL
        /\ tasks[id].closed_at = NoTime
        /\ tasks[id].updated_at >= tasks[id].created_at + 2

\* C24: every list ready() can return is ordered by priority ascending and,
\* among equal priorities, by created_at ascending: for x before y, either
\* priority(x) < priority(y), or the priorities are equal and
\* created_at(x) <= created_at(y).
C24_ReadyOrdered ==
    \A l \in ReadyLists(tasks, deps) :
        \A i \in DOMAIN l : \A j \in DOMAIN l :
            i < j =>
                \/ tasks[l[i]].priority < tasks[l[j]].priority
                \/ /\ tasks[l[i]].priority = tasks[l[j]].priority
                   /\ tasks[l[i]].created_at <= tasks[l[j]].created_at

\* ready() returned fg-b before fg-a: fg-b was created later with a more
\* urgent priority.
C24_Witness ==
    /\ readyOut = <<"fg-b", "fg-a">>
    /\ DOMAIN tasks = Ids
    /\ tasks["fg-b"].priority < tasks["fg-a"].priority
    /\ tasks["fg-a"].created_at < tasks["fg-b"].created_at

\* C25: a read never observes a half-applied write: the Index never shows a
\* closed task without a close_reason, nor the row of an imported snapshot
\* without the blocks edges that snapshot lists to tasks in the Index.
C25_NoHalfAppliedWrite ==
    /\ \A id \in DOMAIN tasks : tasks[id].status = "closed" => tasks[id].close_reason # NULL
    /\ \A i \in DOMAIN store :
          Current(i) =>
              \A e \in store[i].dependencies :
                  (e[2] = "blocks" /\ e[1] \in DOMAIN tasks) =>
                      <<store[i].id, e[1], "blocks">> \in deps

C27_ExportKeepsStoreIds ==
    [][(\E o \in Orders(DOMAIN tasks) : Export(o)) => StoreIds(store) \subseteq StoreIds(store')]_vars

LaterNotClosed(id) ==
    \E i \in LinesOf(id) :
        /\ store[i].row.status # "closed"
        /\ store[i].row.updated_at >= tasks[id].updated_at

Permuted(s, p) == [i \in DOMAIN s |-> s[p[i]]]

\* C29: importing into an empty Index gives the same Index for every
\* permutation of the Record Store's lines, also when two snapshots of one id
\* carry the same updated_at and differ in other fields.
C29_ImportOrderIndependent ==
    \A p \in Orders(DOMAIN store) :
        ImportLines(EmptyIndex, Permuted(store, p)) = ImportLines(EmptyIndex, store)

\* Line i of s is the only line of its task with the greatest updated_at.
Winning(s, i) ==
    /\ s[i].ok
    /\ \A j \in DOMAIN s \ {i} :
          (s[j].ok /\ s[j].id = s[i].id) => s[j].row.updated_at < s[i].row.updated_at

\* C30: after an import, a task whose Index row is its winning snapshot has as
\* outbound edges exactly the dependency list of that snapshot: no edge of a
\* superseded snapshot and no edge the Index held before the import remains.
C30_EdgesOfWinningSnapshot ==
    [][Import =>
          \A i \in DOMAIN store :
              (Winning(store, i) /\ store[i].id \in DOMAIN tasks'
                  /\ tasks'[store[i].id] = store[i].row)
              => OutDeps(deps', store[i].id) = store[i].dependencies]_vars
====
